---- MODULE Spec2Model ----
(***************************************************************************)
(* Model of django/publicmapping/setup.py: the District Builder bootstrap  *)
(* script.  One run of the script is a sequential process                  *)
(*   main -> validate_config -> merge_config (-> create_report_templates)  *)
(*        -> management.call_command('syncdb' / 'setup')                   *)
(* The file system (settings.py, the generated HTML templates) survives    *)
(* from one run of the script to the next.                                 *)
(***************************************************************************)
EXTENDS Integers, Sequences, FiniteSets, TLC

VARIABLES
    nargs,          \* len(args): number of positional arguments
    options,        \* the parsed option flags (optparse values)
    verbose,        \* options.verbosity
    schFile,        \* the file at args[0]
    cfgFile,        \* the file at args[1]
    env,            \* settings.py.in, writability of settings.py, XSLT, template dir
    pc,             \* position of the running script
    config,         \* what validate_config returned to main
    mergeResult,    \* what merge_config returned to main
    outcome,        \* how the process ended
    printed,        \* messages printed by this run (stdout)
    trace,          \* steps this run has performed
    commands,       \* management.call_command invocations of this run
    settings,       \* content of settings.py
    prevSettings,   \* settings.py when the previous run ended, and whether it merged
    templates,      \* generated files in the report template directory
    tplCalls,       \* number of calls of create_report_templates in this run
    run             \* number of the current run of the script

vars == <<nargs, options, verbose, schFile, cfgFile, env, pc, config,
          mergeResult, outcome, printed, trace, commands, settings,
          prevSettings, templates, tplCalls, run>>

inputs == <<nargs, options, verbose, schFile, cfgFile, env>>

----------------------------------------------------------------------------
(* Bounds *)

MaxRuns == 2
MaxBodies == 2
MaxNameLen == 1

----------------------------------------------------------------------------
(* Values *)

None == "<None>"

Ids == {"a", "b"}
AllBodyIds == <<"a", "b", "c", "d">>
BodyIds == {AllBodyIds[i] : i \in 1..MaxBodies}

RECURSIVE SetToSeq(_)
SetToSeq(S) ==
    IF S = {} THEN <<>>
    ELSE LET x == CHOOSE y \in S : TRUE IN <<x>> \o SetToSeq(S \ {x})

Range(s) == {s[i] : i \in DOMAIN s}

(* Characters of body names, and str.lower() on them. *)
Chars == {"S", "s", "h"}
LowerChar(c) == IF c = "S" THEN "s" ELSE c
lower(name) == [i \in DOMAIN name |-> LowerChar(name[i])]

(* int(): decimal numerals to integers; '%d': integers to numerals. *)
Numerals == {"0", "5", "7", "07", "10", "15"}
int(s) ==
    CASE s = "0" -> 0
      [] s = "5" -> 5
      [] s = "7" -> 7
      [] s = "07" -> 7
      [] s = "10" -> 10
      [] s = "15" -> 15
fmt_d(n) ==
    CASE n = 0 -> "0"
      [] n = 5 -> "5"
      [] n = 7 -> "7"
      [] n = 10 -> "10"
      [] n = 15 -> "15"
(* '%s' % x : None prints as the text None *)
fmt_s(x) == IF x = None THEN "None" ELSE x
(* Python truthiness of an attribute value: None and '' are false *)
truthy(x) == x # None /\ x # ""

(* print under a verbosity gate: `if verbose > level: print msg` *)
gated(v, level, msg) == IF v > level THEN <<msg>> ELSE <<>>

----------------------------------------------------------------------------
(* The configuration document (lxml element tree), reduced to the elements *)
(* and attributes the script reads.                                        *)

LB == "LegislativeBody"
SUBJ == "Subject"

Element(tag, parent, id, ref, name) ==
    [tag |-> tag, parent |-> parent, id |-> id, ref |-> ref, name |-> name]

(* All LegislativeBody and Subject elements of the document, in document   *)
(* order: Subjects, then the bodies defined under LegislativeBodies, then  *)
(* the elements that refer to them.                                        *)
Elements(doc) ==
    LET subjIdSeq == SetToSeq(doc.subjIds)
        lbRefSeq == SetToSeq(doc.lbRefs)
        subjRefSeq == SetToSeq(doc.subjRefs)
    IN  [i \in DOMAIN subjIdSeq |-> Element(SUBJ, "Subjects", subjIdSeq[i], None, None)]
        \o [i \in DOMAIN doc.bodies |->
                Element(LB, "LegislativeBodies", doc.bodies[i].id, None,
                        doc.bodies[i].name)]
        \o [i \in DOMAIN lbRefSeq |-> Element(LB, "other", None, lbRefSeq[i], None)]
        \o [i \in DOMAIN subjRefSeq |-> Element(SUBJ, "other", None, subjRefSeq[i], None)]

(* elem_tree.xpath('//<tag>[@<attr>]') *)
xpath_tag_attr(doc, tag, attr) ==
    LET has(e) == e.tag = tag /\ e[attr] # None
    IN  SelectSeq(Elements(doc), has)

(* config.xpath('//DistrictBuilder/LegislativeBodies/LegislativeBody') *)
xpath_bodies(doc) ==
    LET isBody(e) == e.tag = LB /\ e.parent = "LegislativeBodies"
    IN  SelectSeq(Elements(doc), isBody)

----------------------------------------------------------------------------
(* validate_config, step by step *)

FalseResult == [kind |-> "False"]
Unset == [kind |-> "unset"]
TreeResult(doc) == [kind |-> "tree", doc |-> doc]

(* Each step yields what it prints and whether validate_config goes on,    *)
(* returns False, or raises.                                               *)
StepResult(ret, out) == [ret |-> ret, out |-> out]

(* lines 133-151: exists(sch), exists(cfg) *)
exists_step(sch, cfg, v) ==
    IF sch = "missing" THEN StepResult("False", gated(v, 0, "sch_missing"))
    ELSE IF cfg.kind = "missing" THEN StepResult("False", gated(v, 0, "cfg_missing"))
    ELSE StepResult("continue", <<>>)

(* lines 153-170: parse(sch), XMLSchema(schdoc) *)
parse_schema_step(sch, v) ==
    IF sch = "malformed"
    THEN StepResult("False", gated(v, 0, "sch_parse_error")
                             \o gated(v, 1, "traceback"))
    ELSE IF sch = "notschema" THEN StepResult("raise", <<>>)
    ELSE StepResult("continue", <<>>)

(* lines 172-186: parse(cfg) *)
parse_config_step(cfg, v) ==
    IF cfg.kind = "malformed"
    THEN StepResult("False", gated(v, 0, "cfg_parse_error")
                             \o gated(v, 1, "traceback"))
    ELSE StepResult("continue", <<>>)

(* lines 188-195: schema.validate(elem_tree) *)
schema_validate_step_nocheck(doc, v) ==
    StepResult("continue", gated(v, 0, "parsed_and_validated"))
schema_validate_step(doc, v) ==
    IF ~doc.schemaValid
    THEN StepResult("False", gated(v, 1, "not_valid")
                             \o gated(v, 1, "schema_error_detail"))
    ELSE StepResult("continue", gated(v, 0, "parsed_and_validated"))

(* lines 203-205: found = found or (ref_tag.get('ref') == id_tag.get('id')) *)
RECURSIVE found_loop(_, _, _, _)
found_loop(ref_tag, id_tags, i, found) ==
    IF i > Len(id_tags) THEN found
    ELSE found_loop(ref_tag, id_tags, i + 1,
                    found \/ (ref_tag.ref = id_tags[i].id))

(* lines 202-217 / 222-236: the first ref_tag without a match fails *)
RECURSIVE refs_loop(_, _, _)
refs_loop(ref_tags, id_tags, i) ==
    IF i > Len(ref_tags) THEN TRUE
    ELSE IF ~found_loop(ref_tags[i], id_tags, 1, FALSE) THEN FALSE
    ELSE refs_loop(ref_tags, id_tags, i + 1)

(* the id_tags of a family: xpath('//<tag>[@id]') *)
id_tags_any_family(doc, tag) ==
    LET has(e) == e.id # None
    IN  SelectSeq(Elements(doc), has)
id_tags_of(doc, tag) == xpath_tag_attr(doc, tag, "id")

(* lines 199-217 *)
legislativebody_refs_step(doc, v) ==
    IF refs_loop(xpath_tag_attr(doc, LB, "ref"), id_tags_of(doc, LB), 1)
    THEN StepResult("continue", <<>>)
    ELSE StepResult("False", gated(v, 1, "lb_ref_mismatch"))

(* lines 219-241 *)
subject_refs_step(doc, v) ==
    IF refs_loop(xpath_tag_attr(doc, SUBJ, "ref"), id_tags_of(doc, SUBJ), 1)
    THEN StepResult("continue", gated(v, 0, "document_validated"))
    ELSE StepResult("False", gated(v, 1, "subj_ref_mismatch"))

----------------------------------------------------------------------------
(* create_report_templates (lines 375-400) *)

TemplatePath(template_dir, body_name) == <<template_dir, "bard_", body_name, ".html">>

(* transform(config, legislativebody = XSLT.strparam(body_id)), as text *)
TransformResult(body_id) == [legislativebody |-> body_id]

WriteFile(files, path, content) ==
    [p \in DOMAIN files \cup {path} |-> IF p = path THEN content ELSE files[p]]

(* lines 390-400: the loop over the bodies; open(template_path, 'w') raises *)
(* when the directory cannot be written                                     *)
RECURSIVE bodies_loop(_, _, _, _, _)
bodies_loop(bodies, i, template_dir, dirWritable, files) ==
    IF i > Len(bodies) THEN [raised |-> FALSE, files |-> files]
    ELSE IF ~dirWritable THEN [raised |-> TRUE, files |-> files]
    ELSE LET body_id == bodies[i].id
             body_name == lower(bodies[i].name)
             template_path == TemplatePath(template_dir, body_name)
         IN  bodies_loop(bodies, i + 1, template_dir, dirWritable,
                         WriteFile(files, template_path, TransformResult(body_id)))

(* lines 382-384: file(xslt_path), parse(f), XSLT(xml) raise on a missing  *)
(* or invalid transform; nothing in the function catches                   *)
create_report_templates(doc, xslt, template_dir, dirWritable, files) ==
    IF xslt # "ok" THEN [raised |-> TRUE, files |-> files]
    ELSE bodies_loop(xpath_bodies(doc), 1, template_dir, dirWritable, files)

----------------------------------------------------------------------------
(* merge_config (lines 244-373) *)

Line(k, v) == <<k, "=", v>>

(* open('settings.py', 'w') truncates; 'a' would keep the old content *)
open_append(old) == old
open_write(old) == <<>>

(* lines 259-296 *)
head_lines(doc, secret) ==
    <<Line("DATABASE_ENGINE", "postgresql_psycopg2"),
      Line("DATABASE_NAME", fmt_s(doc.db_name)),
      Line("DATABASE_USER", fmt_s(doc.db_user)),
      Line("DATABASE_PASSWORD", fmt_s(doc.db_password)),
      Line("DATABASE_HOST", IF doc.db_host = None THEN "" ELSE doc.db_host),
      Line("MAP_SERVER", fmt_s(doc.ms_hostname))>>
    \o (IF truthy(doc.ms_protocol)
        THEN <<Line("MAP_SERVER_PROTOCOL", doc.ms_protocol)>> ELSE <<>>)
    \o <<Line("BASE_MAPS", fmt_s(doc.ms_basemaps)),
         Line("MAP_SERVER_NS", fmt_s(doc.ms_ns)),
         Line("MAP_SERVER_NSHREF", fmt_s(doc.ms_nshref)),
         Line("FEATURE_LIMIT", fmt_d(int(doc.ms_maxfeatures))),
         <<"ADMINS", "=", fmt_s(doc.admin_user), fmt_s(doc.admin_email)>>,
         Line("MANAGERS", "ADMINS"),
         Line("EMAIL_HOST", fmt_s(doc.mail_server)),
         Line("EMAIL_PORT", fmt_d(int(doc.mail_port))),
         Line("EMAIL_HOST_USER", fmt_s(doc.mail_username)),
         Line("EMAIL_HOST_PASSWORD", fmt_s(doc.mail_password)),
         Line("EMAIL_SUBJECT_PREFIX", fmt_s(doc.mail_prefix)),
         Line("SECRET_KEY", secret),
         Line("MEDIA_ROOT", doc.root),
         Line("STATIC_ROOT", doc.root),
         Line("TEMPLATE_DIRS", doc.root),
         Line("SLD_ROOT", doc.root)>>

(* lines 298-306 *)
session_lines(doc) ==
    LET quota == IF ~truthy(doc.sessionquota) THEN 5 ELSE int(doc.sessionquota)
        timeout == IF ~truthy(doc.sessiontimeout) THEN 15 ELSE int(doc.sessiontimeout)
    IN  <<Line("CONCURRENT_SESSIONS", fmt_d(quota)),
          Line("SESSION_TIMEOUT", fmt_d(timeout))>>

(* The names bound in merge_config when line 311 runs: its parameters, the *)
(* locals assigned so far, and the module's globals.                       *)
merge_config_names ==
    {"config", "verbose", "settings_in", "settings_out", "line", "cfg",
     "protocol", "root_dir", "quota", "timeout", "banner",
     "main", "validate_config", "merge_config", "create_report_templates",
     "Decimal", "OptionParser", "OptionGroup", "exists", "parse", "XMLSchema",
     "XSLT", "minidom", "traceback", "os", "sys", "random"}

(* lines 310-312: `banner = cfg.get('bannerimage')` then `if bannerimage:` *)
(* reading a name that is not bound raises NameError                       *)
banner_step(doc) ==
    IF "bannerimage" \notin merge_config_names
    THEN [raised |-> TRUE, lines |-> <<>>]
    ELSE [raised |-> FALSE,
          lines |-> IF truthy(doc.bannerimage)
                    THEN <<Line("BANNER_IMAGE", doc.bannerimage)>> ELSE <<>>]

(* line 321: '%s/django/publicmapping/redistricting/templates' % root_dir *)
TemplateDir(doc) == <<doc.root, "/django/publicmapping/redistricting/templates">>

(* lines 314-323 *)
reports_block(doc, e, files) ==
    IF doc.bard.present
    THEN LET made == create_report_templates(doc, e.xslt, TemplateDir(doc),
                         e.tplDirWritable, files)
         IN  [raised |-> made.raised,
              lines |-> <<Line("REPORTS_ENABLED", "True"),
                          Line("BARD_BASESHAPE", fmt_s(doc.bard.shape)),
                          Line("BARD_TEMP", fmt_s(doc.bard.temp))>>,
              files |-> made.files, calls |-> 1]
    ELSE [raised |-> FALSE, lines |-> <<Line("REPORTS_ENABLED", "False")>>,
          files |-> files, calls |-> 0]

(* lines 326-358 *)
tail_lines(doc) ==
    LET maxundosduringedit ==
            IF doc.maxundos.present /\ truthy(doc.maxundos.duringedit)
            THEN int(doc.maxundos.duringedit) ELSE 0
        maxundosafteredit ==
            IF doc.maxundos.present /\ truthy(doc.maxundos.afteredit)
            THEN int(doc.maxundos.afteredit) ELSE 0
        maxranked ==
            IF doc.leaderboard.present /\ truthy(doc.leaderboard.maxranked)
            THEN int(doc.leaderboard.maxranked) ELSE 10
    IN  (IF doc.ga.present
         THEN <<Line("GA_ACCOUNT", fmt_s(doc.ga.account)),
                Line("GA_DOMAIN", fmt_s(doc.ga.domain))>>
         ELSE <<Line("GA_ACCOUNT", "None"), Line("GA_DOMAIN", "None")>>)
        \o (IF doc.upload.present
            THEN <<<<"MAX_UPLOAD_SIZE", "=", fmt_s(doc.upload.maxsize), "*", "1024">>>>
            ELSE <<<<"MAX_UPLOAD_SIZE", "=", "5000", "*", "1024">>>>)
        \o <<Line("MAX_UNDOS_DURING_EDIT", fmt_d(maxundosduringedit)),
             Line("MAX_UNDOS_AFTER_EDIT", fmt_d(maxundosafteredit)),
             Line("LEADERBOARD_MAX_RANKED", fmt_d(maxranked))>>

(* lines 250-360: the body of the try block.  `file` is the content of     *)
(* settings.py afterwards (what was written reaches the file when the      *)
(* file object is released, close() or not), `raised` whether an exception *)
(* ended the block.                                                        *)
merge_try(cfg, e, secret, oldSettings, files) ==
    IF ~e.settingsIn.readable \/ ~e.settingsWritable
    THEN [raised |-> TRUE, file |-> oldSettings, files |-> files, calls |-> 0]
    ELSE IF cfg.kind # "tree"
    THEN \* line 259: config.xpath on a value that is no element tree
         [raised |-> TRUE, file |-> open_write(oldSettings) \o e.settingsIn.lines,
          files |-> files, calls |-> 0]
    ELSE LET doc == cfg.doc
             l1 == open_write(oldSettings) \o e.settingsIn.lines
                   \o <<<<"# Automatically generated settings.">>>>
                   \o head_lines(doc, secret) \o session_lines(doc)
             banner == banner_step(doc)
         IN  IF banner.raised
             THEN [raised |-> TRUE, file |-> l1, files |-> files, calls |-> 0]
             ELSE LET rep == reports_block(doc, e, files)
                      l2 == l1 \o banner.lines \o rep.lines
                  IN  IF rep.raised
                      THEN [raised |-> TRUE, file |-> l2,
                            files |-> rep.files, calls |-> rep.calls]
                      ELSE [raised |-> FALSE, file |-> l2 \o tail_lines(doc),
                            files |-> rep.files, calls |-> rep.calls]

(* lines 361-371: `except Exception, ex:` prints and returns False *)
except_reraise(v) == [ret |-> "raise", out |-> <<>>]
except_handler(v) ==
    [ret |-> "False",
     out |-> gated(v, 0, "settings_write_error") \o gated(v, 1, "traceback")]

merge_config(cfg, e, secret, oldSettings, files, v) ==
    LET t == merge_try(cfg, e, secret, oldSettings, files)
        h == IF t.raised THEN except_handler(v) ELSE [ret |-> "True", out |-> <<>>]
    IN  [ret |-> h.ret, out |-> h.out, file |-> t.file, files |-> t.files,
         calls |-> t.calls]

----------------------------------------------------------------------------
(* main (lines 38-126) *)

(* an `append` option that was never given is None, not a list *)
NoList == [isNone |-> TRUE, items |-> <<>>]
List(items) == [isNone |-> FALSE, items |-> items]
list_truthy(l) == ~l.isNone /\ l.items # <<>>

(* line 72 *)
allops(o) ==
    ~o.database /\ ~list_truthy(o.geolevels) /\ ~o.views /\ ~o.geoserver
    /\ ~o.templates /\ ~list_truthy(o.nesting) /\ ~o.bard

(* line 76 *)
main_args_ok(n) == n = 2

(* line 88: `if not config: return`; an lxml element tree is true *)
main_config_ok_always(cfg) == TRUE
main_config_ok(cfg) == cfg.kind = "tree"

(* line 94: `if merge_config(config, verbose):` *)
main_merge_ok(r) == r = "True"

(* lines 106-124: the management commands called, in order *)
main_dispatch(o, v) ==
    (IF allops(o) \/ o.database THEN <<[cmd |-> "syncdb"]>> ELSE <<>>)
    \o <<[cmd |-> "setup", config |-> "args[1]", verbosity |-> v,
          geolevels |-> IF allops(o) THEN List(<<>>) ELSE o.geolevels,
          views |-> IF allops(o) THEN TRUE ELSE o.views,
          geoserver |-> IF allops(o) THEN TRUE ELSE o.geoserver,
          templates |-> IF allops(o) THEN TRUE ELSE o.templates,
          nesting |-> IF allops(o) THEN List(<<>>) ELSE o.nesting,
          bard |-> IF allops(o) THEN TRUE ELSE o.bard]>>

----------------------------------------------------------------------------
(* Actions: the steps of one run of the script *)

Steps == UNCHANGED <<inputs, run, prevSettings>>

(* lines 70-84 *)
ParseArgs ==
    /\ pc = "start"
    /\ trace' = Append(trace, "parse_args")
    /\ IF main_args_ok(nargs)
       THEN /\ pc' = "v_exists"
            /\ UNCHANGED <<printed, outcome>>
       ELSE /\ pc' = "done"
            /\ printed' = printed \o gated(verbose, 0, "usage_error")
            /\ outcome' = "returned"
    /\ UNCHANGED <<config, mergeResult, commands, settings, templates, tplCalls>>
    /\ Steps

(* One step of validate_config: go on, return False to main, or raise. *)
ValidateStep(here, name, r, next, result) ==
    /\ pc = here
    /\ trace' = Append(trace, name)
    /\ printed' = printed \o r.out
    /\ CASE r.ret = "continue" ->
               /\ pc' = next
               /\ config' = result
               /\ UNCHANGED outcome
         [] r.ret = "False" ->
               /\ pc' = "m_config"
               /\ config' = FalseResult
               /\ UNCHANGED outcome
         [] r.ret = "raise" ->
               /\ pc' = "done"
               /\ outcome' = "uncaught"
               /\ UNCHANGED config
    /\ UNCHANGED <<mergeResult, commands, settings, templates, tplCalls>>
    /\ Steps

ValidateExists ==
    /\ pc = "v_exists"
    /\ ValidateStep("v_exists", "exists", exists_step(schFile, cfgFile, verbose),
                 "v_parse_sch", config)

ParseSchema ==
    /\ pc = "v_parse_sch"
    /\ ValidateStep("v_parse_sch", "parse_schema", parse_schema_step(schFile, verbose),
                 "v_parse_cfg", config)

ParseConfig ==
    /\ pc = "v_parse_cfg"
    /\ ValidateStep("v_parse_cfg", "parse_config", parse_config_step(cfgFile, verbose),
                 "v_schema", config)

SchemaValidate ==
    /\ pc = "v_schema"
    /\ ValidateStep("v_schema", "schema_validate",
                    schema_validate_step(cfgFile.doc, verbose), "v_refs_lb", config)

CheckLegislativeBodyRefs ==
    /\ pc = "v_refs_lb"
    /\ ValidateStep("v_refs_lb", "refs_legislativebody",
                    legislativebody_refs_step(cfgFile.doc, verbose),
                    "v_refs_subj", config)

CheckSubjectRefs ==
    /\ pc = "v_refs_subj"
    /\ ValidateStep("v_refs_subj", "refs_subject",
                    subject_refs_step(cfgFile.doc, verbose),
                    "m_config", TreeResult(cfgFile.doc))

(* lines 86-92 *)
MainCheckConfig ==
    /\ pc = "m_config"
    /\ trace' = Append(trace, "check_config")
    /\ IF main_config_ok(config)
       THEN /\ pc' = "merge"
            /\ printed' = printed \o gated(verbose, 0, "validated_config")
            /\ UNCHANGED outcome
       ELSE /\ pc' = "done"
            /\ outcome' = "returned"
            /\ UNCHANGED printed
    /\ UNCHANGED <<config, mergeResult, commands, settings, templates, tplCalls>>
    /\ Steps

Secrets == {"k1", "k2"}

(* line 94: the call of merge_config, create_report_templates included *)
MergeConfig ==
    /\ pc = "merge"
    /\ trace' = Append(trace, "merge_config")
    /\ \E secret \in Secrets :
          LET m == merge_config(config, env, secret, settings, templates, verbose)
          IN  /\ settings' = m.file
              /\ templates' = m.files
              /\ tplCalls' = m.calls
              /\ printed' = printed \o m.out
              /\ IF m.ret = "raise"
                 THEN /\ pc' = "done"
                      /\ outcome' = "uncaught"
                      /\ UNCHANGED mergeResult
                 ELSE /\ pc' = "m_merged"
                      /\ mergeResult' = m.ret
                      /\ UNCHANGED outcome
    /\ UNCHANGED <<config, commands>>
    /\ Steps

(* lines 94-126 *)
MainAfterMerge ==
    /\ pc = "m_merged"
    /\ trace' = Append(trace, "after_merge")
    /\ IF main_merge_ok(mergeResult)
       THEN /\ printed' = printed \o gated(verbose, 0, "generated_settings")
            /\ commands' = main_dispatch(options, verbose)
       ELSE UNCHANGED <<printed, commands>>
    /\ pc' = "done"
    /\ outcome' = "returned"
    /\ UNCHANGED <<config, mergeResult, settings, templates, tplCalls>>
    /\ Steps

(* The script is started again on the same files. *)
Rerun ==
    /\ pc = "done"
    /\ run < MaxRuns
    /\ run' = run + 1
    /\ prevSettings' = [merged |-> "merge_config" \in Range(trace), file |-> settings]
    /\ pc' = "start"
    /\ config' = Unset
    /\ mergeResult' = "unset"
    /\ outcome' = "running"
    /\ printed' = <<>>
    /\ trace' = <<>>
    /\ commands' = <<>>
    /\ tplCalls' = 0
    /\ UNCHANGED <<inputs, settings, templates>>

Next ==
    \/ ParseArgs
    \/ ValidateExists
    \/ ParseSchema
    \/ ParseConfig
    \/ SchemaValidate
    \/ CheckLegislativeBodyRefs
    \/ CheckSubjectRefs
    \/ MainCheckConfig
    \/ MergeConfig
    \/ MainAfterMerge
    \/ Rerun

----------------------------------------------------------------------------
(* Inputs *)

Names == UNION {[1..n -> Chars] : n \in 1..MaxNameLen}

(* a body named after its id, for the runs where names play no part *)
BodiesFor(S) ==
    LET ids == SetToSeq(S)
    IN  [i \in DOMAIN ids |-> [id |-> ids[i], name |-> <<"h">>]]

(* the bodies under LegislativeBodies: distinct ids, distinct names *)
BodySeqs ==
    {b \in UNION {[1..n -> [id : BodyIds, name : Names]] : n \in 0..MaxBodies} :
        \A i, j \in DOMAIN b :
            i # j => (b[i].id # b[j].id /\ b[i].name # b[j].name)}

Absent == [present |-> FALSE]

BaseDoc ==
    [schemaValid |-> TRUE,
     bodies |-> BodiesFor({"a"}), lbRefs |-> {}, subjIds |-> {}, subjRefs |-> {},
     db_name |-> "db", db_user |-> "u", db_password |-> "p", db_host |-> None,
     ms_hostname |-> "host", ms_protocol |-> None, ms_basemaps |-> "osm",
     ms_ns |-> "ns", ms_nshref |-> "href", ms_maxfeatures |-> "10",
     admin_user |-> "admin", admin_email |-> "mail",
     mail_server |-> "smtp", mail_port |-> "15", mail_username |-> "mu",
     mail_password |-> "mp", mail_prefix |-> "pre",
     root |-> "/projects/publicmapping",
     sessionquota |-> None, sessiontimeout |-> None, bannerimage |-> None,
     bard |-> Absent, ga |-> Absent, upload |-> Absent, maxundos |-> Absent,
     leaderboard |-> Absent]

Bard == [present |-> TRUE, shape |-> "shape", temp |-> "temp", transform |-> "xslt"]

(* documents that differ in what validate_config looks at *)
ValidationDocs ==
    {[BaseDoc EXCEPT !.schemaValid = sv, !.bodies = BodiesFor(lb),
                     !.lbRefs = lr, !.subjIds = si, !.subjRefs = sr] :
        sv \in BOOLEAN,
        lb \in {S \in SUBSET Ids : Cardinality(S) <= MaxBodies},
        lr \in SUBSET Ids, si \in SUBSET Ids, sr \in SUBSET Ids}

(* the optional elements after the reports block: all absent, all present  *)
(* with their attributes, all present without them                        *)
Tails ==
    {[upload |-> Absent, maxundos |-> Absent, leaderboard |-> Absent],
     [upload |-> [present |-> TRUE, maxsize |-> "07"],
      maxundos |-> [present |-> TRUE, duringedit |-> "7", afteredit |-> "07"],
      leaderboard |-> [present |-> TRUE, maxranked |-> "15"]],
     [upload |-> [present |-> TRUE, maxsize |-> None],
      maxundos |-> [present |-> TRUE, duringedit |-> None, afteredit |-> None],
      leaderboard |-> [present |-> TRUE, maxranked |-> None]]}

(* schema-valid documents that differ in what merge_config looks at *)
MergeDocs ==
    {[BaseDoc EXCEPT !.sessionquota = q, !.sessiontimeout = t, !.bard = b,
                     !.upload = tl.upload, !.maxundos = tl.maxundos,
                     !.leaderboard = tl.leaderboard] :
        q \in {None, "", "07"}, t \in {None, "10"}, b \in {Absent, Bard},
        tl \in Tails}

(* the optparse defaults: no flag given *)
NoOptions ==
    [database |-> FALSE, geolevels |-> NoList, views |-> FALSE,
     geoserver |-> FALSE, templates |-> FALSE, nesting |-> NoList,
     bard |-> FALSE]

OptionChoices ==
    LET none == NoOptions
    IN  {none,
         [none EXCEPT !.database = TRUE],
         [none EXCEPT !.geolevels = List(<<1>>), !.views = TRUE],
         [none EXCEPT !.nesting = List(<<1>>), !.bard = TRUE, !.templates = TRUE,
                      !.geoserver = TRUE]}

SettingsIn == [readable |-> TRUE, lines |-> << <<"# settings.py.in">> >>]
NoSettingsIn == [readable |-> FALSE, lines |-> <<>>]
StaleLine == <<"# left by an earlier run">>

GoodEnv ==
    [settingsIn |-> SettingsIn, settingsWritable |-> TRUE, xslt |-> "ok",
     tplDirWritable |-> TRUE]

Envs ==
    [settingsIn : {SettingsIn, NoSettingsIn}, settingsWritable : BOOLEAN,
     xslt : {"ok", "missing"}, tplDirWritable : BOOLEAN]

NoFiles == <<>>

InitRun ==
    /\ config = Unset
    /\ mergeResult = "unset"
    /\ outcome = "running"
    /\ printed = <<>>
    /\ trace = <<>>
    /\ commands = <<>>
    /\ tplCalls = 0
    /\ templates = NoFiles
    /\ prevSettings = [merged |-> FALSE, file |-> <<>>]
    /\ run = 1

(* any command line, any pair of files *)
Init ==
    /\ nargs \in {1, 2, 3}
    /\ options \in OptionChoices
    /\ verbose \in {0, 1, 2}
    /\ schFile \in {"missing", "malformed", "notschema", "ok"}
    /\ cfgFile \in {[kind |-> "missing"], [kind |-> "malformed"]}
                   \cup {[kind |-> "xml", doc |-> d] : d \in ValidationDocs}
    /\ env = GoodEnv
    /\ settings = <<>>
    /\ InitRun
    /\ pc = "start"

Spec == Init /\ [][Next]_vars

(* a valid configuration, any settings and any state of the directories *)
InitMerge ==
    /\ nargs = 2
    /\ options \in OptionChoices
    /\ verbose \in {0, 1, 2}
    /\ schFile = "ok"
    /\ cfgFile \in {[kind |-> "xml", doc |-> d] : d \in MergeDocs}
    /\ env \in Envs
    /\ settings \in {<<>>, <<StaleLine>>}
    /\ InitRun
    /\ pc = "start"

SpecMerge == InitMerge /\ [][Next]_vars

(* create_report_templates applied on its own to a configuration document *)
CreateReportTemplates ==
    /\ pc = "t_start"
    /\ LET r == create_report_templates(cfgFile.doc, env.xslt,
                    TemplateDir(cfgFile.doc), env.tplDirWritable, templates)
       IN  /\ templates' = r.files
           /\ outcome' = IF r.raised THEN "uncaught" ELSE "returned"
    /\ pc' = "t_done"
    /\ tplCalls' = tplCalls + 1
    /\ trace' = Append(trace, "create_report_templates")
    /\ UNCHANGED <<config, mergeResult, printed, commands, settings>>
    /\ Steps

NextTemplates == CreateReportTemplates

InitTemplates ==
    /\ nargs = 2
    /\ options = NoOptions
    /\ verbose = 1
    /\ schFile = "ok"
    /\ cfgFile \in {[kind |-> "xml",
                     doc |-> [BaseDoc EXCEPT !.bodies = b, !.bard = Bard]] :
                        b \in BodySeqs}
    /\ env \in [settingsIn : {SettingsIn}, settingsWritable : {TRUE},
                xslt : {"ok", "missing", "invalid"}, tplDirWritable : BOOLEAN]
    /\ settings = <<>>
    /\ InitRun
    /\ pc = "t_start"

SpecTemplates == InitTemplates /\ [][NextTemplates]_vars

----------------------------------------------------------------------------
(* Properties *)

Did(step) == step \in Range(trace)
HasDoc == cfgFile.kind = "xml"
ValidateReturned == config # Unset
LBIdsDefined(doc) == {doc.bodies[i].id : i \in DOMAIN doc.bodies}
AllRefsResolved(doc) ==
    /\ \A r \in doc.lbRefs : r \in LBIdsDefined(doc)
    /\ \A r \in doc.subjRefs : r \in doc.subjIds

(* C1: for a schema-valid document validate_config returns the document    *)
(* exactly when every LegislativeBody ref has a LegislativeBody id and     *)
(* every Subject ref has a Subject id, and returns False when a ref of     *)
(* either family dangles; a match in the other family does not count.      *)
C1_RefIntegrity ==
    (HasDoc /\ Did("schema_validate") /\ ValidateReturned) =>
        (cfgFile.doc.schemaValid =>
            /\ (config = TreeResult(cfgFile.doc)) <=> AllRefsResolved(cfgFile.doc)
            /\ ~AllRefsResolved(cfgFile.doc) => config = FalseResult)

(* C1 witness: a schema-valid document whose LegislativeBody ref equals    *)
(* only a Subject id has been checked and rejected.                        *)
C1_Witness ==
    /\ HasDoc /\ cfgFile.doc.schemaValid
    /\ Did("refs_legislativebody") /\ config = FalseResult
    /\ cfgFile.doc.lbRefs = {"a"} /\ "a" \in cfgFile.doc.subjIds
    /\ "a" \notin LBIdsDefined(cfgFile.doc)
    /\ cfgFile.doc.subjRefs \subseteq cfgFile.doc.subjIds

(* C2: a document that does not conform to the schema is rejected before   *)
(* any ID/REF check: no referential step is ever reached or performed in a *)
(* run whose schema validation failed, whatever its refs are.              *)
C2_SchemaBeforeRefs ==
    /\ (pc \in {"v_refs_lb", "v_refs_subj"} \/ Did("refs_legislativebody")
            \/ Did("refs_subject"))
        => (HasDoc /\ cfgFile.doc.schemaValid /\ Did("schema_validate"))
    /\ (HasDoc /\ ~cfgFile.doc.schemaValid /\ Did("schema_validate"))
        => config = FalseResult

(* C2 witness: a schema-invalid document with a dangling ref was rejected  *)
(* and the run ended.                                                      *)
C2_Witness ==
    /\ pc = "done" /\ HasDoc /\ ~cfgFile.doc.schemaValid
    /\ ~AllRefsResolved(cfgFile.doc)
    /\ Did("schema_validate") /\ config = FalseResult

MergeRan == Did("merge_config")
SettingsFilesOk == env.settingsIn.readable /\ env.settingsWritable
HasLine(l) == l \in Range(settings)

(* C3 as claimed: after merge_config on a validated config, a BardConfig   *)
(* gives REPORTS_ENABLED = True with the BARD lines and one call of        *)
(* create_report_templates; no BardConfig gives REPORTS_ENABLED = False    *)
(* and no call.                                                            *)
C3_ReportsBlock ==
    (MergeRan /\ SettingsFilesOk /\ config.kind = "tree") =>
        IF config.doc.bard.present
        THEN /\ HasLine(Line("REPORTS_ENABLED", "True"))
             /\ HasLine(Line("BARD_BASESHAPE", "shape"))
             /\ HasLine(Line("BARD_TEMP", "temp"))
             /\ tplCalls = 1
        ELSE /\ HasLine(Line("REPORTS_ENABLED", "False"))
             /\ tplCalls = 0

(* C4 as claimed: when create_report_templates has returned, the target    *)
(* directory holds one file per LegislativeBody, bard_<lowercased name>    *)
(* .html, each the transform run with that body's id.                      *)
C4_OneFilePerBody ==
    (pc = "t_done" /\ outcome = "returned") =>
        LET bodies == cfgFile.doc.bodies
            dir == TemplateDir(cfgFile.doc)
        IN  /\ Cardinality(DOMAIN templates) = Len(bodies)
            /\ \A i \in DOMAIN bodies :
                  /\ TemplatePath(dir, lower(bodies[i].name)) \in DOMAIN templates
                  /\ templates[TemplatePath(dir, lower(bodies[i].name))]
                        = TransformResult(bodies[i].id)

(* C5 as claimed: each default is written exactly when its attribute is    *)
(* absent and the configured value is written when it is present.          *)
C5_Defaults ==
    (MergeRan /\ SettingsFilesOk /\ config.kind = "tree") =>
        LET doc == config.doc
        IN  /\ HasLine(<<"MAX_UPLOAD_SIZE", "=", "5000", "*", "1024">>)
                <=> (~doc.upload.present \/ doc.upload.maxsize = None)
            /\ HasLine(Line("MAX_UNDOS_DURING_EDIT", "0"))
                <=> (~doc.maxundos.present \/ doc.maxundos.duringedit = None)
            /\ HasLine(Line("MAX_UNDOS_AFTER_EDIT", "0"))
                <=> (~doc.maxundos.present \/ doc.maxundos.afteredit = None)
            /\ HasLine(Line("LEADERBOARD_MAX_RANKED", "10"))
                <=> (~doc.leaderboard.present \/ doc.leaderboard.maxranked = None)
            /\ HasLine(Line("CONCURRENT_SESSIONS", "5")) <=> doc.sessionquota = None
            /\ HasLine(Line("SESSION_TIMEOUT", "15")) <=> doc.sessiontimeout = None
            /\ doc.sessionquota = "07" => HasLine(Line("CONCURRENT_SESSIONS", "7"))
            /\ doc.sessiontimeout = "10" => HasLine(Line("SESSION_TIMEOUT", "10"))

TemplatesCannotBeMade ==
    /\ HasDoc /\ cfgFile.doc.bard.present
    /\ (env.xslt # "ok" \/ ~env.tplDirWritable)

ErrorMessages ==
    {"sch_missing", "cfg_missing", "sch_parse_error", "cfg_parse_error",
     "not_valid", "lb_ref_mismatch", "subj_ref_mismatch", "settings_write_error"}

(* the step of this run that failed, when one did *)
FailedStep ==
    IF config = FalseResult /\ Len(trace) >= 2 /\ trace[Len(trace)] = "check_config"
    THEN trace[Len(trace) - 1]
    ELSE IF mergeResult = "False" THEN "merge_config" ELSE "none"

(* C7 as claimed: every failure kind is reported by verbosity: nothing at  *)
(* 0, a short error message at 1, and at 2 also the traceback (parse and   *)
(* write errors) and the schema error detail (schema violation).           *)
C7_VerbosityGates ==
    (pc = "done" /\ FailedStep # "none") =>
        /\ verbose = 0 => printed = <<>>
        /\ verbose >= 1 => Range(printed) \cap ErrorMessages # {}
        /\ (verbose = 2 /\ FailedStep \in {"parse_schema", "parse_config", "merge_config"})
              => "traceback" \in Range(printed)
        /\ (verbose = 2 /\ FailedStep = "schema_validate")
              => "schema_error_detail" \in Range(printed)

StripSecret(file) ==
    [i \in DOMAIN file |->
        IF file[i][1] = "SECRET_KEY" THEN Line("SECRET_KEY", "*") ELSE file[i]]

(* C8: when merge_config has run in two consecutive runs on the same       *)
(* config and settings template, settings.py after the second run equals   *)
(* settings.py after the first except for the SECRET_KEY value, and what   *)
(* the file held before is gone when the file was opened for writing.      *)
C8_Idempotent ==
    /\ (run >= 2 /\ prevSettings.merged /\ MergeRan)
          => StripSecret(settings) = StripSecret(prevSettings.file)
    /\ (MergeRan /\ SettingsFilesOk) => ~HasLine(StaleLine)

(* C8 witness: the second run has rewritten a file that the first run      *)
(* wrote, with another secret.                                             *)
C8_Witness ==
    /\ run = 2 /\ prevSettings.merged /\ MergeRan /\ SettingsFilesOk
    /\ settings # prevSettings.file
    /\ Len(settings) > 1

AllPhasesCommands ==
    <<[cmd |-> "syncdb"],
      [cmd |-> "setup", config |-> "args[1]", verbosity |-> verbose,
       geolevels |-> List(<<>>), views |-> TRUE, geoserver |-> TRUE,
       templates |-> TRUE, nesting |-> List(<<>>), bard |-> TRUE]>>

(* C9 as claimed: with two positional arguments, a config that validates   *)
(* and no phase flag, the run calls 'syncdb' and then 'setup' with views,  *)
(* geoserver, templates and bard true and geolevels and nesting empty.     *)
C9_AllPhases ==
    (pc = "done" /\ nargs = 2 /\ config.kind = "tree" /\ allops(options)
        /\ SettingsFilesOk)
        => commands = AllPhasesCommands

CommandIndex(c) == {i \in DOMAIN commands : commands[i].cmd = c}

(* C10: no command is called unless two positional arguments were given,   *)
(* validate_config returned a document and merge_config returned success;  *)
(* merge_config is never started after a failed validation; 'syncdb' comes *)
(* before 'setup' and 'setup' is called once.                              *)
C10_LinearEarlyExit ==
    /\ commands # <<>>
          => (nargs = 2 /\ config.kind = "tree" /\ mergeResult = "True")
    /\ (pc \in {"merge", "m_merged"} \/ MergeRan)
          => (nargs = 2 /\ config.kind = "tree")
    /\ (pc # "start" /\ nargs # 2) => ~Did("exists")
    /\ \A i \in CommandIndex("syncdb") : \A j \in CommandIndex("setup") : i < j
    /\ commands # <<>> => Cardinality(CommandIndex("setup")) = 1

(* C10 witness: a run with two arguments whose validation failed has ended *)
(* without starting merge_config and without calling a command.            *)
C10_Witness ==
    /\ pc = "done" /\ nargs = 2 /\ config = FalseResult
    /\ Did("check_config") /\ ~MergeRan /\ commands = <<>>

====
